---- MODULE Spec2Model ----
(***************************************************************************)
(* FlappyKiroGame (the simulation engine) as a state machine.              *)
(*                                                                         *)
(* Units: horizontal quantities (x, wall width, wallSpeed, wallSpacing,    *)
(* canvas width) are whole pixels.  Vertical quantities (ghosty.y,         *)
(* ghosty.height, velocity, gravity, jumpStrength, gapSize, topHeight,     *)
(* bottomY, bottomHeight) are in tenths of a pixel, so that gravity 0.3    *)
(* is the integer 3 and the arithmetic of update() is exact.               *)
(*                                                                         *)
(* The engine's methods are the actions.  start() and the frame callback   *)
(* both run gameLoop(), which calls update() synchronously, so both        *)
(* actions contain one whole tick.                                         *)
(*                                                                         *)
(* FlappyKiroApp (the session controller) is the second part: its event    *)
(* handlers are the actions of AppSpec, which drive the engine through     *)
(* startGame() and receive its 'gameOver' event.  Strings the code         *)
(* inspects (the username) are sequences of one-character strings.         *)
(***************************************************************************)
EXTENDS Integers, Sequences, FiniteSets, TLC

\* ---------------------------------------------------------------- bounds
\* canvas.width / canvas.height come from markup that is not part of the
\* sources; they are inputs of the constructor.
Width == 198
Height == 600
\* update() calls per run, Space presses per run, frame callbacks pending
MaxTicks == 66
MaxJumps == 1
MaxPending == 2
\* setDifficulty() calls while a run is active, per run; a run that was
\* reconfigured is followed for this many ticks only
MaxReconfigs == 1
MaxReconfigTicks == 3
\* Math.random() draws, in tenths of the unit interval [0, 1)
Draws == {7, 8}

\* ------------------------------------------------------ program constants
DifficultyNames == {"easy", "medium", "hard"}
NoDifficulty == "undefined"

difficulties ==
    [easy   |-> [gravity |-> 3, jumpStrength |-> -60, wallSpeed |-> 2,
                 gapSize |-> 2000, wallSpacing |-> 300],
     medium |-> [gravity |-> 4, jumpStrength |-> -70, wallSpeed |-> 3,
                 gapSize |-> 1600, wallSpacing |-> 280],
     hard   |-> [gravity |-> 5, jumpStrength |-> -80, wallSpeed |-> 4,
                 gapSize |-> 1200, wallSpacing |-> 250]]

GhostyX == 100
GhostyWidth == 40
GhostyHeight == 400
WallWidth == 60
GapMargin == 500

VARIABLES
    game,          \* the fields of the FlappyKiroGame instance
    listening,     \* handleKeyPress is registered for 'keydown'
    pending,       \* requestAnimationFrame callbacks of gameLoop not yet run
    gameOverEvent, \* detail of the last 'gameOver' CustomEvent of this run
    signals,       \* 'gameOver' events dispatched since the last start()
    collisionLog,  \* arguments of the last telemetry.collision() of this run
    op,            \* the method that ran last
    ticks,         \* update() bodies executed since the last start()
    jumps,         \* jump() calls since the last start()
    retired,       \* walls removed by the filter since the last start()
    reconfigs,     \* setDifficulty() calls made while gameRunning, this run
    gameEndLog     \* telemetry.gameEnd() was called since the last start()

engineVars == <<game, listening, pending, gameOverEvent, signals,
                collisionLog, op, ticks, jumps, retired, reconfigs,
                gameEndLog>>

VARIABLES
    currentScreen,      \* this.currentScreen
    selectedDifficulty, \* this.selectedDifficulty
    hasGame,            \* this.game is not null; then game is that engine
    username,           \* value of the #username input
    inputBorder,        \* style.borderColor of the #username input
    submitDisabled,     \* disabled property of the #submit-score button
    inFlight,           \* POST /api/scores requests not yet resolved
    fetches,            \* GET /api/leaderboard requests not yet resolved
    alert,              \* the last alert() shown
    finalScore,         \* number shown in #final-score
    scoreDisplay,       \* number shown in #score
    difficultyDisplay,  \* difficulty shown in #difficulty-display
    leaderboardContent, \* what #leaderboard-content shows
    request,            \* body of the POST issued by the last handler
    response,           \* what the last handler received from the service
    uiLoop              \* a requestAnimationFrame callback of updateUI is pending

appVars == <<currentScreen, selectedDifficulty, hasGame, username,
             inputBorder, submitDisabled, inFlight, fetches, alert,
             finalScore, scoreDisplay, difficultyDisplay,
             leaderboardContent, request, response, uiLoop>>

vars == <<engineVars, appVars>>

NoEvent == [none |-> TRUE]

\* this.config = this.difficulties[difficulty]
config(g) == difficulties[g.difficulty]

\* ------------------------------------------------------------ the methods
\* reset() that forgets to empty the wall list
resetKeepsWalls(g) ==
    [g EXCEPT !.ghosty = [x |-> GhostyX, y |-> Height * 5,
                          width |-> GhostyWidth, height |-> GhostyHeight,
                          velocity |-> 0],
              !.score = 0,
              !.gameRunning = FALSE,
              !.gameOver = FALSE,
              !.lastWallX = Width]

reset(g) ==
    [g EXCEPT !.ghosty = [x |-> GhostyX, y |-> Height * 5,
                          width |-> GhostyWidth, height |-> GhostyHeight,
                          velocity |-> 0],
              !.walls = <<>>,
              !.score = 0,
              !.gameRunning = FALSE,
              !.gameOver = FALSE,
              !.lastWallX = Width]

setDifficulty(g, d) == [g EXCEPT !.difficulty = d]

\* jump() that adds the impulse to the current velocity
jumpAdditive(g) ==
    [g EXCEPT !.ghosty.velocity = @ + difficulties[g.difficulty].jumpStrength]

jump(g) == [g EXCEPT !.ghosty.velocity = config(g).jumpStrength]

\* handleKeyPress() that does not look at gameRunning and gameOver
handleKeyPressUnguarded(g) == jump(g)

handleKeyPress(g) ==
    IF g.gameRunning /\ ~g.gameOver THEN jump(g) ELSE g

\* physics without gravity: y += velocity
physicsNoGravity(g) ==
    [g EXCEPT !.ghosty.y = g.ghosty.y + g.ghosty.velocity]

\* lines 96-98: velocity += gravity; y += velocity
physics(g) ==
    LET v == g.ghosty.velocity + config(g).gravity
    IN  [g EXCEPT !.ghosty.velocity = v, !.ghosty.y = g.ghosty.y + v]

\* a gap position without the margin of 50
gapYOfNoMargin(g, r) ==
    ((Height * 10 - config(g).gapSize - 2 * GapMargin) * r) \div 10

\* gapY = Math.random() * (height - gapSize - 100) + 50, random = r / 10;
\* the product is a multiple of 10 tenths, so the division is exact
gapYOf(g, r) ==
    ((Height * 10 - config(g).gapSize - 2 * GapMargin) * r) \div 10 + GapMargin

\* generateWall() that puts the new wall in front of the list
generateWallInFront(g, r) ==
    LET gapY == gapYOf(g, r)
        wall == [x |-> Width,
                 topHeight |-> gapY,
                 bottomY |-> gapY + config(g).gapSize,
                 bottomHeight |-> Height * 10 - (gapY + config(g).gapSize),
                 width |-> WallWidth,
                 scored |-> FALSE]
    IN  [g EXCEPT !.walls = <<wall>> \o @, !.lastWallX = Width]

generateWall(g, r) ==
    LET gapY == gapYOf(g, r)
        wall == [x |-> Width,
                 topHeight |-> gapY,
                 bottomY |-> gapY + config(g).gapSize,
                 bottomHeight |-> Height * 10 - (gapY + config(g).gapSize),
                 width |-> WallWidth,
                 scored |-> FALSE]
    IN  [g EXCEPT !.walls = Append(@, wall), !.lastWallX = Width]

\* a generation test that only looks for an empty list
needsWallWhenEmpty(g) == Len(g.walls) = 0

\* lines 100-103
needsWall(g) ==
    \/ Len(g.walls) = 0
    \/ g.lastWallX - g.walls[Len(g.walls)].x >= config(g).wallSpacing

generate(g, r) == IF needsWall(g) THEN generateWall(g, r) ELSE g

\* lines 106-108
scroll(g) ==
    [g EXCEPT !.walls =
        [i \in 1..Len(g.walls) |->
            [g.walls[i] EXCEPT !.x = @ - config(g).wallSpeed]]]

offScreen(wall) == wall.x + wall.width < 0

\* a filter that counts a dropped wall twice
retireDouble(g) ==
    [g EXCEPT !.walls = SelectSeq(g.walls, LAMBDA w : ~offScreen(w)),
              !.score = @ + 2 * Cardinality({i \in 1..Len(g.walls) :
                                 offScreen(g.walls[i]) /\ ~g.walls[i].scored})]

\* a filter that scores an off-screen wall but keeps it in the list
retireKeeps(g) ==
    [g EXCEPT !.walls =
                  [i \in 1..Len(g.walls) |->
                      IF offScreen(g.walls[i])
                      THEN [g.walls[i] EXCEPT !.scored = TRUE]
                      ELSE g.walls[i]],
              !.score = @ + Cardinality({i \in 1..Len(g.walls) :
                                 offScreen(g.walls[i]) /\ ~g.walls[i].scored})]

\* lines 111-121: the filter drops off-screen walls, scoring unscored ones
retire(g) ==
    [g EXCEPT !.walls = SelectSeq(g.walls, LAMBDA w : ~offScreen(w)),
              !.score = @ + Cardinality({i \in 1..Len(g.walls) :
                                 offScreen(g.walls[i]) /\ ~g.walls[i].scored})]

\* the state update() hands to checkCollisions()
moved(g, r) == retire(scroll(generate(physics(g), r)))

overlapsX(g, wall) ==
    /\ g.ghosty.x < wall.x + wall.width
    /\ g.ghosty.x + g.ghosty.width > wall.x

outsideGap(g, wall) ==
    \/ g.ghosty.y < wall.topHeight
    \/ g.ghosty.y + g.ghosty.height > wall.bottomY

\* checkCollisions() that forgets the horizontal overlap test
checkCollisionsAnyWall(g) ==
    IF g.ghosty.y <= 0 \/ g.ghosty.y + g.ghosty.height >= Height * 10
    THEN "boundary"
    ELSE IF \E i \in 1..Len(g.walls) : outsideGap(g, g.walls[i])
         THEN "wall"
         ELSE "none"

\* checkCollisions() that forgets the lower segment of a wall
checkCollisionsTopOnly(g) ==
    IF g.ghosty.y <= 0 \/ g.ghosty.y + g.ghosty.height >= Height * 10
    THEN "boundary"
    ELSE IF \E i \in 1..Len(g.walls) :
                overlapsX(g, g.walls[i]) /\ g.ghosty.y < g.walls[i].topHeight
         THEN "wall"
         ELSE "none"

\* lines 143-162: the argument endGame() is called with, or "none"
checkCollisions(g) ==
    IF g.ghosty.y <= 0 \/ g.ghosty.y + g.ghosty.height >= Height * 10
    THEN "boundary"
    ELSE IF \E i \in 1..Len(g.walls) :
                overlapsX(g, g.walls[i]) /\ outsideGap(g, g.walls[i])
         THEN "wall"
         ELSE "none"

\* endGame() that leaves gameRunning set
endGameStillRunning(g) == [g EXCEPT !.gameOver = TRUE]

endGame(g) == [g EXCEPT !.gameOver = TRUE, !.gameRunning = FALSE]

\* endGame() that reports every collision as a wall collision
collisionEntryAlwaysWall(g, collisionType) ==
    [obstacleType |-> "wall", score |-> g.score]

\* line 167: telemetry.collision(collisionType, this.score)
collisionEntry(g, collisionType) ==
    [obstacleType |-> collisionType, score |-> g.score]

\* lines 170-172: the detail of the 'gameOver' CustomEvent
gameOverDetail(g) == [score |-> g.score, difficulty |-> g.difficulty]

\* update() executes its body (does not take the early return of line 94)
updates(g) == g.gameRunning /\ ~g.gameOver

update(g, r) ==
    IF ~updates(g) THEN g
    ELSE IF checkCollisions(moved(g, r)) # "none"
         THEN endGame(moved(g, r))
         ELSE moved(g, r)

\* a gameLoop() that does not look at gameRunning
loopsAlways(g) == TRUE

\* gameLoop() enters its body
loops(g) == g.gameRunning

\* what the model records about a run besides the engine's fields
History == [ticks |-> ticks, retired |-> retired, signals |-> signals,
            collisionLog |-> collisionLog, gameOverEvent |-> gameOverEvent]

NoHistory == [ticks |-> 0, retired |-> 0, signals |-> 0,
              collisionLog |-> NoEvent, gameOverEvent |-> NoEvent]

\* gameLoop() called on engine state g, with p callbacks pending before it
\* and h recorded so far; endGame()'s telemetry.collision() and
\* dispatchEvent() are recorded when update() ends the game
gameLoop(g, r, p, h) ==
    LET ran == loops(g) /\ updates(g)
        m   == moved(g, r)
        hit == IF ran THEN checkCollisions(m) ELSE "none"
    IN  /\ game' = IF loops(g) THEN update(g, r) ELSE g
        /\ pending' = IF loops(g) THEN p + 1 ELSE p
        /\ ticks' = IF ran THEN h.ticks + 1 ELSE h.ticks
        /\ retired' = IF ran
                      THEN h.retired
                           + (Len(scroll(generate(physics(g), r)).walls)
                              - Len(m.walls))
                      ELSE h.retired
        /\ IF hit # "none"
           THEN /\ collisionLog' = collisionEntry(m, hit)
                /\ gameOverEvent' = gameOverDetail(m)
                /\ signals' = h.signals + 1
           ELSE /\ collisionLog' = h.collisionLog
                /\ gameOverEvent' = h.gameOverEvent
                /\ signals' = h.signals

\* lines 64-66 of start()
started(g) == [reset(g) EXCEPT !.gameRunning = TRUE, !.gameOver = FALSE]

\* stop() that also marks the run terminal
stopEndsGame(g) == [g EXCEPT !.gameRunning = FALSE, !.gameOver = TRUE]

stop(g) == [g EXCEPT !.gameRunning = FALSE]

\* new FlappyKiroGame(canvas), lines 2-13
NewGame ==
    reset([ghosty |-> [x |-> 0, y |-> 0, width |-> 0, height |-> 0,
                       velocity |-> 0],
           walls |-> <<>>, score |-> 0, gameRunning |-> FALSE,
           gameOver |-> FALSE, lastWallX |-> 0,
           difficulty |-> NoDifficulty])

\* new FlappyKiroApp(), app.js lines 2-12, and the page as loaded
AppIdle ==
    /\ currentScreen = "menu"
    /\ selectedDifficulty = "medium"
    /\ hasGame = FALSE
    /\ username = <<>>
    /\ inputBorder = "initial"
    /\ inFlight = 0
    /\ fetches = 0
    /\ alert = "none"
    /\ finalScore = -1
    /\ scoreDisplay = -1
    /\ difficultyDisplay = NoDifficulty
    /\ leaderboardContent = "initial"
    /\ request = NoEvent
    /\ response = NoEvent
    /\ uiLoop = FALSE

Init ==
    /\ AppIdle
    /\ submitDisabled = FALSE
    /\ game = NewGame
    /\ listening = FALSE
    /\ pending = 0
    /\ gameOverEvent = NoEvent
    /\ signals = 0
    /\ collisionLog = NoEvent
    /\ op = "new"
    /\ ticks = 0
    /\ jumps = 0
    /\ retired = 0
    /\ reconfigs = 0
    /\ gameEndLog = FALSE


\* ---------------------------------------------------------------- actions
\* setDifficulty(difficulty), lines 57-61
SetDifficulty ==
    \E d \in DifficultyNames :
        /\ game.gameRunning =>
               reconfigs < MaxReconfigs /\ ticks < MaxReconfigTicks
        /\ game' = setDifficulty(game, d)
        /\ reconfigs' = IF game.gameRunning THEN reconfigs + 1 ELSE reconfigs
        /\ op' = "setDifficulty"
        /\ UNCHANGED <<listening, pending, gameOverEvent, signals,
                       collisionLog, ticks, jumps, retired, gameEndLog>>
        /\ UNCHANGED appVars

\* start(), lines 63-73, on a configured engine: reset, register the key
\* listener, then gameLoop() runs the first update() before start() returns
Start ==
    /\ game.difficulty # NoDifficulty
    /\ pending < MaxPending
    /\ \E r \in Draws : gameLoop(started(game), r, pending, NoHistory)
    /\ listening' = TRUE
    /\ jumps' = 0
    /\ reconfigs' = 0
    /\ gameEndLog' = FALSE
    /\ op' = "start"
    /\ UNCHANGED appVars

\* start() before any setDifficulty(): this.config is undefined, update()
\* throws at line 97 and the exception leaves start() before line 204
StartUnconfigured ==
    /\ game.difficulty = NoDifficulty
    /\ game' = started(game)
    /\ listening' = TRUE
    /\ ticks' = 0 /\ retired' = 0 /\ signals' = 0
    /\ collisionLog' = NoEvent /\ gameOverEvent' = NoEvent
    /\ jumps' = 0
    /\ reconfigs' = 0
    /\ gameEndLog' = FALSE
    /\ op' = "start"
    /\ UNCHANGED appVars
    /\ UNCHANGED pending

\* stop(), lines 75-79
Stop ==
    /\ game' = stop(game)
    /\ listening' = FALSE
    /\ gameEndLog' = TRUE
    /\ op' = "stop"
    /\ UNCHANGED <<pending, gameOverEvent, signals, collisionLog,
                   ticks, jumps, retired, reconfigs>>
    /\ UNCHANGED appVars

\* a 'keydown' of Space reaches handleKeyPress(), lines 81-91; on an engine
\* started without a profile jump() throws at line 89 and changes nothing
KeyPress ==
    /\ listening
    /\ game.difficulty # NoDifficulty
    /\ updates(game) => jumps < MaxJumps
    /\ game' = handleKeyPress(game)
    /\ jumps' = IF updates(game) THEN jumps + 1 ELSE jumps
    /\ op' = "keypress"
    /\ UNCHANGED <<listening, pending, gameOverEvent, signals,
                   collisionLog, ticks, retired, reconfigs, gameEndLog>>
    /\ UNCHANGED appVars

\* one requestAnimationFrame callback of line 204 runs gameLoop()
Frame ==
    /\ pending > 0
    /\ game.gameRunning =>
           ticks < (IF reconfigs > 0 THEN MaxReconfigTicks ELSE MaxTicks)
    /\ \E r \in Draws : gameLoop(game, r, pending - 1, History)
    /\ op' = "frame"
    /\ UNCHANGED <<listening, jumps, reconfigs, gameEndLog>>
    /\ UNCHANGED appVars

Next ==
    \/ SetDifficulty
    \/ Start
    \/ StartUnconfigured
    \/ Stop
    \/ KeyPress
    \/ Frame

Spec == Init /\ [][Next]_vars

\* ------------------------------------------------- username validation
\* the longest username the pattern of app.js line 137 admits
MaxUsernameLength == 20

LowerCase == <<"a", "b", "c", "d", "e", "f", "g", "h", "i", "j", "k", "l",
               "m", "n", "o", "p", "q", "r", "s", "t", "u", "v", "w", "x",
               "y", "z">>

UpperCase == <<"A", "B", "C", "D", "E", "F", "G", "H", "I", "J", "K", "L",
               "M", "N", "O", "P", "Q", "R", "S", "T", "U", "V", "W", "X",
               "Y", "Z">>

Digits == {"0", "1", "2", "3", "4", "5", "6", "7", "8", "9"}

\* the character class [a-zA-Z0-9_-] of line 137
UsernameChars ==
    {LowerCase[i] : i \in 1..26} \cup {UpperCase[i] : i \in 1..26}
        \cup Digits \cup {"_", "-"}

\* /^[a-zA-Z0-9_-]{1,20}$/.test(u), line 137
regexTest(u) ==
    /\ Len(u) >= 1
    /\ Len(u) <= MaxUsernameLength
    /\ \A i \in 1..Len(u) : u[i] \in UsernameChars

\* String.prototype.toLowerCase on the characters the model uses
toLowerCase(u) ==
    [i \in 1..Len(u) |->
        IF \E k \in 1..26 : UpperCase[k] = u[i]
        THEN LowerCase[CHOOSE k \in 1..26 : UpperCase[k] = u[i]]
        ELSE u[i]]

\* String.prototype.includes
includes(u, w) ==
    \E k \in 0..(Len(u) - Len(w)) : SubSeq(u, k + 1, k + Len(w)) = w

\* the denylist of line 147
inappropriateWords ==
    {<<"a", "d", "m", "i", "n">>, <<"r", "o", "o", "t">>,
     <<"t", "e", "s", "t">>, <<"n", "u", "l", "l">>,
     <<"u", "n", "d", "e", "f", "i", "n", "e", "d">>}

\* containsInappropriateContent() comparing without lowering the username
containsInappropriateContentCaseSensitive(u) ==
    \E w \in inappropriateWords : includes(u, toLowerCase(w))

\* containsInappropriateContent(username), lines 146-151
containsInappropriateContent(u) ==
    \E w \in inappropriateWords : includes(toLowerCase(u), toLowerCase(w))

\* validateUsername() that takes the empty input for a valid one
validateUsernameAcceptsEmpty(u) ==
    LET isValid == u = <<>> \/ (regexTest(u)
                                /\ ~containsInappropriateContent(u))
    IN  [isValid     |-> isValid,
         borderColor |-> IF isValid THEN "#4CAF50" ELSE "#f44336",
         disabled    |-> ~isValid]

\* validateUsername(input), lines 135-144: the verdict and what it writes
\* to the input's border and to the submit button
validateUsername(u) ==
    LET isValid == regexTest(u) /\ ~containsInappropriateContent(u)
    IN  [isValid     |-> isValid,
         borderColor |-> IF isValid THEN "#4CAF50" ELSE "#f44336",
         disabled    |-> ~isValid]

\* ------------------------------------------------- the session controller
Screens == {"menu", "game", "gameOver", "leaderboard"}

\* the screen each control of the page belongs to; only the controls of
\* the active screen are displayed (the page's markup and style sheet)
controlScreen ==
    [x \in {"difficulty-btn", "start-game", "show-leaderboard"} |-> "menu"]
    @@ [x \in {"username", "submit-score", "play-again", "back-to-menu"}
           |-> "gameOver"]
    @@ [x \in {"back-from-leaderboard"} |-> "leaderboard"]

Visible(control) == currentScreen = controlScreen[control]

\* showScreen(screenName), lines 85-96: the screen that becomes active
showScreen(screenName) == screenName

\* handleGameOver() that shows the leaderboard screen
handleGameOverToLeaderboard(gameData) ==
    [finalScore |-> gameData.score, screen |-> showScreen("leaderboard")]

\* handleGameOver() that leaves the screen as it is
handleGameOverStays(gameData) ==
    [finalScore |-> gameData.score, screen |-> showScreen("game")]

\* handleGameOver(gameData), lines 130-133
handleGameOver(gameData) ==
    [finalScore |-> gameData.score, screen |-> showScreen("gameOver")]

\* the handlers that neither alert nor talk to the service
Quiet ==
    /\ alert' = "none"
    /\ request' = NoEvent
    /\ response' = NoEvent

\* selectDifficulty(difficulty), lines 73-83
SelectDifficulty ==
    \E d \in DifficultyNames :
        /\ Visible("difficulty-btn")
        /\ selectedDifficulty' = d
        /\ op' = "difficulty-btn"
        /\ Quiet
        /\ UNCHANGED <<game, listening, pending, gameOverEvent, signals,
                       collisionLog, ticks, jumps, retired, reconfigs,
                       gameEndLog>>
        /\ UNCHANGED <<currentScreen, hasGame, username, inputBorder,
                       submitDisabled, inFlight, fetches, finalScore,
                       scoreDisplay, difficultyDisplay, leaderboardContent,
                       uiLoop>>

\* a new engine bound to the medium profile, whatever is selected
newEngineMedium(d) == setDifficulty(NewGame, "medium")

\* lines 102-103 of startGame(): new FlappyKiroGame(canvas), then
\* setDifficulty(d)
newEngine(d) == setDifficulty(NewGame, d)

\* updateUI() of startUIUpdates(), lines 117-122, run on engine g while
\* #score shows `shown`: the score shown afterwards, and whether updateUI
\* has scheduled itself for the next frame
updateUI(g, shown) ==
    [score     |-> IF g.gameRunning THEN g.score ELSE shown,
     scheduled |-> g.gameRunning]

\* startGame(), lines 98-114: a new engine bound to the selected profile
\* is started; updateScore(0) and startUIUpdates() run on it before
\* start(), with updateUI() called once at that point; start() runs the
\* first tick before startGame() returns, and a 'gameOver' event of that
\* tick reaches handleGameOver() at once
startGame(r) ==
    /\ gameLoop(started(newEngine(selectedDifficulty)), r, 0, NoHistory)
    /\ hasGame' = TRUE
    /\ listening' = TRUE
    /\ jumps' = 0
    /\ reconfigs' = 0
    /\ gameEndLog' = FALSE
    /\ difficultyDisplay' = selectedDifficulty
    /\ scoreDisplay' = updateUI(newEngine(selectedDifficulty), 0).score
    /\ uiLoop' = updateUI(newEngine(selectedDifficulty), 0).scheduled
    /\ IF signals' > 0
       THEN /\ finalScore' = handleGameOver(gameOverEvent').finalScore
            /\ currentScreen' = handleGameOver(gameOverEvent').screen
       ELSE /\ finalScore' = finalScore
            /\ currentScreen' = showScreen("game")
    /\ Quiet
    /\ UNCHANGED <<selectedDifficulty, username, inputBorder,
                   submitDisabled, inFlight, fetches, leaderboardContent>>

\* click on #start-game, lines 44-46
ClickStart ==
    /\ Visible("start-game")
    /\ \E r \in Draws : startGame(r)
    /\ op' = "start-game"

\* click on #play-again, lines 53-55
ClickPlayAgain ==
    /\ Visible("play-again")
    /\ \E r \in Draws : startGame(r)
    /\ op' = "play-again"

\* a display frame of the session: a pending updateUI callback, which was
\* registered first, and then the frame callback of the session's engine;
\* the 'gameOver' event its tick dispatches is handled by handleGameOver()
\* (lines 67-69) inside the tick
AppFrame ==
    /\ hasGame
    /\ pending > 0
    /\ \E r \in Draws : gameLoop(game, r, pending - 1, History)
    /\ scoreDisplay' = IF uiLoop THEN updateUI(game, scoreDisplay).score
                       ELSE scoreDisplay
    /\ uiLoop' = (uiLoop /\ updateUI(game, scoreDisplay).scheduled)
    /\ IF signals' > signals
       THEN /\ finalScore' = handleGameOver(gameOverEvent').finalScore
            /\ currentScreen' = handleGameOver(gameOverEvent').screen
       ELSE UNCHANGED <<finalScore, currentScreen>>
    /\ op' = "frame"
    /\ Quiet
    /\ UNCHANGED <<listening, jumps, reconfigs, gameEndLog>>
    /\ UNCHANGED <<selectedDifficulty, hasGame, username, inputBorder,
                   submitDisabled, inFlight, fetches, difficultyDisplay,
                   leaderboardContent>>

\* the ticks after which the sessions of AppSpec press Space
KeyTicks == {22}

\* a Space keydown during a live run of the session's engine
AppKeyPress ==
    /\ hasGame
    /\ listening
    /\ updates(game)
    /\ ticks \in KeyTicks
    /\ jumps < MaxJumps
    /\ game' = handleKeyPress(game)
    /\ jumps' = jumps + 1
    /\ op' = "keypress"
    /\ UNCHANGED <<listening, pending, gameOverEvent, signals,
                   collisionLog, ticks, retired, reconfigs, gameEndLog>>
    /\ UNCHANGED appVars

\* an 'input' event of #username (lines 70-71) that leaves value u
input(u) ==
    /\ Visible("username")
    /\ username' = u
    /\ inputBorder' = validateUsername(u).borderColor
    /\ submitDisabled' = validateUsername(u).disabled
    /\ op' = "input"
    /\ Quiet
    /\ UNCHANGED <<game, listening, pending, gameOverEvent, signals,
                   collisionLog, ticks, jumps, retired, reconfigs,
                   gameEndLog>>
    /\ UNCHANGED <<currentScreen, selectedDifficulty, hasGame, inFlight,
                   fetches, finalScore, scoreDisplay, difficultyDisplay,
                   leaderboardContent, uiLoop>>

\* the usernames the sessions of AppSpec enter
SessionNames == {<<"b", "o", "b">>, <<"a", " ", "b">>}

InputUsername == \E u \in SessionNames : u # username /\ input(u)

\* the largest number of unresolved score submissions followed
MaxInFlight == 2

\* a request body that reports the score the display was reset to
scoreDataDisplayed(u, g) ==
    [username |-> u, score |-> 0, difficulty |-> g.difficulty]

\* lines 161-166: the request body, read from the session's engine (the
\* timestamp is left out)
scoreData(u, g) ==
    [username |-> u, score |-> g.score, difficulty |-> g.difficulty]

\* click on #submit-score: submitScore() up to its fetch(), lines 153-174
SubmitScore ==
    /\ Visible("submit-score")
    /\ ~submitDisabled
    /\ validateUsername(username).isValid => inFlight < MaxInFlight
    /\ inputBorder' = validateUsername(username).borderColor
    /\ submitDisabled' = validateUsername(username).disabled
    /\ IF validateUsername(username).isValid
       THEN /\ request' = scoreData(username, game)
            /\ inFlight' = inFlight + 1
            /\ alert' = "none"
       ELSE /\ request' = NoEvent
            /\ inFlight' = inFlight
            /\ alert' = "invalid-username"
    /\ response' = NoEvent
    /\ op' = "submit-score"
    /\ UNCHANGED <<game, listening, pending, gameOverEvent, signals,
                   collisionLog, ticks, jumps, retired, reconfigs,
                   gameEndLog>>
    /\ UNCHANGED <<currentScreen, selectedDifficulty, hasGame, username,
                   fetches, finalScore, scoreDisplay, difficultyDisplay,
                   leaderboardContent, uiLoop>>

\* what POST /api/scores can come back with: a response (ok or not, with
\* a body that is an error object, null or not JSON) or a rejected fetch
SubmitOutcomes ==
    {[status |-> "ok", body |-> "object"],
     [status |-> "not-ok", body |-> "object"],
     [status |-> "not-ok", body |-> "null"],
     [status |-> "not-ok", body |-> "not-json"],
     [status |-> "rejected", body |-> "none"]}

\* the continuation of submitScore() that also clears the input when the
\* submission failed
submitResolvedClearsAlways(o, u) ==
    IF o.status = "ok"
    THEN [alert |-> "submitted", username |-> <<>>]
    ELSE IF o.status = "not-ok" /\ o.body = "object"
    THEN [alert |-> "failed-with-message", username |-> <<>>]
    ELSE [alert |-> "failed", username |-> <<>>]

\* the continuation of submitScore() after its fetch(), lines 176-189, on
\* outcome o with u in the input: the alert shown and the input's value
submitResolved(o, u) ==
    IF o.status = "ok"
    THEN [alert |-> "submitted", username |-> <<>>]
    ELSE IF o.status = "not-ok" /\ o.body = "object"
    THEN [alert |-> "failed-with-message", username |-> u]
    ELSE [alert |-> "failed", username |-> u]

\* one pending POST /api/scores settles
SubmitResolve ==
    \E o \in SubmitOutcomes :
        /\ inFlight > 0
        /\ inFlight' = inFlight - 1
        /\ alert' = submitResolved(o, username).alert
        /\ username' = submitResolved(o, username).username
        /\ response' = o
        /\ request' = NoEvent
        /\ op' = "submit-resolve"
        /\ UNCHANGED <<game, listening, pending, gameOverEvent, signals,
                       collisionLog, ticks, jumps, retired, reconfigs,
                       gameEndLog>>
        /\ UNCHANGED <<currentScreen, selectedDifficulty, hasGame,
                       inputBorder, submitDisabled, fetches, finalScore,
                       scoreDisplay, difficultyDisplay, leaderboardContent,
                       uiLoop>>

\* the largest number of unresolved leaderboard fetches followed
MaxFetches == 1

\* what GET /api/leaderboard can come back with: a rejected fetch, a body
\* that is not JSON, or a JSON value (length: its length property, -1 when
\* it has none; items: what an array holds)
FetchBodies ==
    {[kind |-> "rejected", length |-> -1, items |-> "none"],
     [kind |-> "not-json", length |-> -1, items |-> "none"],
     [kind |-> "null", length |-> -1, items |-> "none"],
     [kind |-> "object", length |-> -1, items |-> "none"],
     [kind |-> "object", length |-> 0, items |-> "none"],
     [kind |-> "string", length |-> 0, items |-> "none"],
     [kind |-> "string", length |-> 4, items |-> "none"],
     [kind |-> "array", length |-> 0, items |-> "none"],
     [kind |-> "array", length |-> 1, items |-> "entry"],
     [kind |-> "array", length |-> 1, items |-> "number"],
     [kind |-> "array", length |-> 1, items |-> "null"]}

\* the continuation of showLeaderboard() after its fetch(), lines 196-205,
\* with renderLeaderboard(), lines 208-225: what #leaderboard-content
\* shows.  fetch() or response.json() rejects; reading .length of null,
\* calling .map of a value that is no array and reading .username of a
\* null item throw inside the try block
renderLeaderboard(b) ==
    IF b.kind \in {"rejected", "not-json", "null"} THEN "failed"
    ELSE IF b.length = 0 THEN "empty"
    ELSE IF b.kind # "array" THEN "failed"
    ELSE IF b.items = "null" THEN "failed"
    ELSE IF b.items = "entry" THEN "entries"
    ELSE "undefined-rows"

\* click on #show-leaderboard: showLeaderboard() up to its fetch(),
\* lines 192-196
ShowLeaderboard ==
    /\ Visible("show-leaderboard")
    /\ fetches < MaxFetches
    /\ currentScreen' = showScreen("leaderboard")
    /\ fetches' = fetches + 1
    /\ op' = "show-leaderboard"
    /\ Quiet
    /\ UNCHANGED <<game, listening, pending, gameOverEvent, signals,
                   collisionLog, ticks, jumps, retired, reconfigs,
                   gameEndLog>>
    /\ UNCHANGED <<selectedDifficulty, hasGame, username, inputBorder,
                   submitDisabled, inFlight, finalScore, scoreDisplay,
                   difficultyDisplay, leaderboardContent, uiLoop>>

\* one pending GET /api/leaderboard settles
FetchResolve ==
    \E b \in FetchBodies :
        /\ fetches > 0
        /\ fetches' = fetches - 1
        /\ leaderboardContent' = renderLeaderboard(b)
        /\ response' = b
        /\ request' = NoEvent
        /\ alert' = "none"
        /\ op' = "fetch-resolve"
        /\ UNCHANGED <<game, listening, pending, gameOverEvent, signals,
                       collisionLog, ticks, jumps, retired, reconfigs,
                       gameEndLog>>
        /\ UNCHANGED <<currentScreen, selectedDifficulty, hasGame, username,
                       inputBorder, submitDisabled, inFlight, finalScore,
                       scoreDisplay, difficultyDisplay, uiLoop>>

\* a click whose handler is showScreen('menu')
toMenu(control) ==
    /\ Visible(control)
    /\ currentScreen' = showScreen("menu")
    /\ op' = control
    /\ Quiet
    /\ UNCHANGED <<game, listening, pending, gameOverEvent, signals,
                   collisionLog, ticks, jumps, retired, reconfigs,
                   gameEndLog>>
    /\ UNCHANGED <<selectedDifficulty, hasGame, username, inputBorder,
                   submitDisabled, inFlight, fetches, finalScore,
                   scoreDisplay, difficultyDisplay, leaderboardContent,
                   uiLoop>>

\* click on #back-to-menu, lines 57-59
BackToMenu == toMenu("back-to-menu")

\* click on #back-from-leaderboard, lines 61-63
BackFromLeaderboard == toMenu("back-from-leaderboard")

\* the page after DOMContentLoaded (lines 228-230): no engine yet; the
\* submit button is as the markup declares it, enabled or disabled
AppInit ==
    /\ AppIdle
    /\ submitDisabled \in BOOLEAN
    /\ game = NewGame
    /\ listening = FALSE
    /\ pending = 0
    /\ gameOverEvent = NoEvent
    /\ signals = 0
    /\ collisionLog = NoEvent
    /\ op = "new"
    /\ ticks = 0
    /\ jumps = 0
    /\ retired = 0
    /\ reconfigs = 0
    /\ gameEndLog = FALSE

AppNext ==
    \/ SelectDifficulty
    \/ ClickStart
    \/ ClickPlayAgain
    \/ AppFrame
    \/ AppKeyPress
    \/ InputUsername
    \/ SubmitScore
    \/ SubmitResolve
    \/ ShowLeaderboard
    \/ FetchResolve
    \/ BackToMenu
    \/ BackFromLeaderboard

AppSpec == AppInit /\ [][AppNext]_vars

\* ------------------------------------- wall creation, draw by draw
\* Math.random() in tenths, over the whole unit interval [0, 1)
AllDraws == 0..9

\* start() with any draw
WallStart ==
    /\ game.difficulty # NoDifficulty
    /\ pending < MaxPending
    /\ \E r \in AllDraws : gameLoop(started(game), r, pending, NoHistory)
    /\ listening' = TRUE
    /\ jumps' = 0
    /\ reconfigs' = 0
    /\ gameEndLog' = FALSE
    /\ op' = "start"
    /\ UNCHANGED appVars

\* a frame callback with any draw
WallFrame ==
    /\ pending > 0
    /\ game.gameRunning =>
           ticks < (IF reconfigs > 0 THEN MaxReconfigTicks ELSE MaxTicks)
    /\ \E r \in AllDraws : gameLoop(game, r, pending - 1, History)
    /\ op' = "frame"
    /\ UNCHANGED <<listening, jumps, reconfigs, gameEndLog>>
    /\ UNCHANGED appVars

WallNext ==
    \/ SetDifficulty
    \/ WallStart
    \/ WallFrame

WallSpec == Init /\ [][WallNext]_vars

\* ------------------------------------------- Space pressed repeatedly
\* the largest number of keydown events followed between two ticks
MaxBurst == 2

\* a Space keydown on a live run, after a tick of KeyTicks
BurstKeyPress ==
    /\ listening
    /\ updates(game)
    /\ ticks \in KeyTicks
    /\ jumps < MaxBurst
    /\ game' = handleKeyPress(game)
    /\ jumps' = jumps + 1
    /\ op' = "keypress"
    /\ UNCHANGED <<listening, pending, gameOverEvent, signals,
                   collisionLog, ticks, retired, reconfigs, gameEndLog>>
    /\ UNCHANGED appVars

ImpulseNext ==
    \/ SetDifficulty
    \/ Start
    \/ Frame
    \/ BurstKeyPress

ImpulseSpec == Init /\ [][ImpulseNext]_vars

\* ------------------------------------------- runs played to their end
\* sessions that only play: the browser runs every requested frame
\* callback, so the frame step is weakly fair; Space is pressed finitely
\* often in a run
PlayNext ==
    \/ SelectDifficulty
    \/ ClickStart
    \/ ClickPlayAgain
    \/ AppFrame
    \/ AppKeyPress
    \/ BackToMenu

PlaySpec == AppInit /\ [][PlayNext]_vars /\ WF_vars(AppFrame)

\* ------------------------------------------- validation, input by input
\* the characters typed one at a time, and how many of them
TypedChars == {"r", "o", "O", "t", " "}

MaxTyped == 4

\* one more character typed into #username
TypeChar ==
    \E c \in TypedChars :
        /\ Len(username) < MaxTyped
        /\ input(Append(username, c))

\* a string of n characters c
Repeat(c, n) == [i \in 1..n |-> c]

\* usernames pasted whole
PastedNames ==
    {<<>>,
     <<"P", "l", "a", "y", "e", "r", "_", "1">>,
     <<"a", "d", "m", "i", "n">>,
     <<"r", "o", "o", "t", "2">>,
     <<"a", " ", "b">>,
     <<"a", "-", "b">>,
     <<"x", "N", "u", "L", "l", "9">>,
     <<"T", "E", "S", "T">>,
     <<"u", "n", "d", "e", "f", "i", "n", "e", "d">>,
     <<"t", "e", "s", "-", "t">>,
     <<"b", "o", "b", "!">>,
     Repeat("a", MaxUsernameLength),
     Repeat("a", MaxUsernameLength + 1)}

PasteName == \E u \in PastedNames : input(u)

ValidateNext ==
    \/ ClickStart
    \/ AppFrame
    \/ TypeChar
    \/ PasteName

ValidateSpec == AppInit /\ [][ValidateNext]_vars

\* ------------------------------------------------------------ properties
Configured == game.difficulty # NoDifficulty

\* the collision conditions of the engine's contract, on a state
BoundaryViolation(g) ==
    g.ghosty.y <= 0 \/ g.ghosty.y + g.ghosty.height >= Height * 10

GapViolation(g) ==
    \E i \in 1..Len(g.walls) :
        /\ g.ghosty.x < g.walls[i].x + g.walls[i].width
        /\ g.walls[i].x < g.ghosty.x + g.ghosty.width
        /\ \/ g.ghosty.y < g.walls[i].topHeight
           \/ g.ghosty.y + g.ghosty.height > g.walls[i].bottomY

\* C1: a tick of a running, non-terminal engine leaves the score as it is
\* or adds exactly 1 (the tick run by start() counts from the reset score 0)
C1_ScoreStep ==
    [][/\ (op' = "frame" /\ updates(game)) =>
              game'.score \in {game.score, game.score + 1}
       /\ op' = "start" => game'.score \in {0, 1}]_vars

\* C1 witness: a frame callback's tick has just scored on a live engine
C1_Witness ==
    op = "frame" /\ game.gameRunning /\ game.score = 1 /\ Len(game.walls) >= 1

\* C2: no wall in the list is ever marked scored (the flag is set only in
\* the filter call that drops the wall), and the score equals the number
\* of walls dropped since start()
C2_ScoredOnRetire ==
    /\ \A i \in 1..Len(game.walls) : ~game.walls[i].scored
    /\ game.score = retired

\* C2 witness: one wall has been retired and a later one is still listed
C2_Witness == retired = 1 /\ game.score = 1 /\ Len(game.walls) = 1

\* C3: on a terminal engine update() and handleKeyPress() return the engine
\* unchanged, and a frame callback or key press on it changes no engine
\* field and dispatches no further 'gameOver' event
C3_TerminalNoOp ==
    /\ [](game.gameOver =>
            /\ \A r \in Draws : update(game, r) = game
            /\ handleKeyPress(game) = game)
    /\ [][(game.gameOver /\ op' \in {"frame", "keypress"}) =>
              /\ game' = game
              /\ signals' = signals
              /\ gameOverEvent' = gameOverEvent]_vars

\* C3 witness: Space was pressed on a terminal engine
C3_Witness == game.gameOver /\ op = "keypress" /\ signals = 1

\* C4: gameOver turns true only in a tick (of a frame callback, or the one
\* start() runs) whose resulting state violates a boundary or a gap
C4_TerminalOnlyByCollision ==
    [][(game'.gameOver /\ (~game.gameOver \/ op' = "start")) =>
          /\ op' \in {"frame", "start"}
          /\ ticks' = (IF op' = "start" THEN 1 ELSE ticks + 1)
          /\ BoundaryViolation(game') \/ GapViolation(game')]_vars

\* C4 witness: a tick ended the game on a wall while inside the playfield
C4_Witness ==
    game.gameOver /\ ~BoundaryViolation(game) /\ GapViolation(game)

\* C5: a tick sets velocity to old velocity + gravity and y to old y + new
\* velocity; a key press on a live engine overwrites the velocity with
\* jumpStrength; so the tick after a key press yields jumpStrength +
\* gravity (easy: 0.3 after the first tick from rest, -5.7 after a press)
C5_Integration ==
    [][/\ (op' = "frame" /\ updates(game)) =>
              /\ game'.ghosty.velocity
                     = game.ghosty.velocity + config(game).gravity
              /\ game'.ghosty.y = game.ghosty.y + game'.ghosty.velocity
       /\ (op' = "keypress" /\ updates(game)) =>
              /\ game'.ghosty.velocity = config(game).jumpStrength
              /\ game'.ghosty.y = game.ghosty.y
       /\ (op' = "frame" /\ op = "keypress" /\ updates(game)) =>
              /\ game'.ghosty.velocity
                     = config(game).jumpStrength + config(game).gravity
              /\ game.difficulty = "easy" =>
                     /\ game'.ghosty.velocity = -57
                     /\ game'.ghosty.y = game.ghosty.y - 57
       /\ (op' = "start" /\ Configured) =>
              /\ game'.ghosty.velocity = config(game).gravity
              /\ game'.ghosty.y = Height * 5 + config(game).gravity
              /\ game.difficulty = "easy" =>
                     /\ game'.ghosty.velocity = 3
                     /\ game'.ghosty.y = Height * 5 + 3]_vars

\* C5 witness: the tick after a key press, easy profile
C5_Witness ==
    /\ op = "frame" /\ jumps = 1 /\ game.difficulty = "easy"
    /\ game.ghosty.velocity = -57 /\ game.gameRunning

\* C6 as stated: right after start() the engine is reset and no tick has
\* been applied
C6_Original ==
    (op = "start" /\ Configured) =>
        /\ game.ghosty.y = Height * 5
        /\ game.ghosty.velocity = 0
        /\ game.walls = <<>>
        /\ game.score = 0
        /\ game.gameRunning
        /\ ~game.gameOver

\* C6 amended: right after start() on a configured engine the engine has
\* been reset and advanced by exactly one tick: velocity = gravity,
\* y = height / 2 + gravity, one wall at width - wallSpeed, score 0, and
\* running and not terminal unless that first tick already collides
C6_StartRunsFirstTick ==
    (op = "start" /\ Configured) =>
        /\ ticks = 1 /\ jumps = 0 /\ retired = 0
        /\ game.ghosty.velocity = config(game).gravity
        /\ game.ghosty.y = Height * 5 + config(game).gravity
        /\ game.ghosty.x = GhostyX
        /\ Len(game.walls) = 1
        /\ game.walls[1].x = Width - config(game).wallSpeed
        /\ ~game.walls[1].scored
        /\ game.lastWallX = Width
        /\ game.score = 0
        /\ game.gameOver = (BoundaryViolation(game) \/ GapViolation(game))
        /\ game.gameRunning = ~game.gameOver
        /\ signals = (IF game.gameOver THEN 1 ELSE 0)
        /\ listening

\* C6 witness: start() was called again while the frame callback of the
\* previous start() was still pending
C6_Witness ==
    /\ op = "start" /\ game.gameRunning /\ ~game.gameOver
    /\ pending = 2 /\ Len(game.walls) = 1

\* C7 as stated: setDifficulty() during a run leaves the bound profile
\* unchanged
C7_Original ==
    [][(op' = "setDifficulty" /\ game.gameRunning) =>
          game'.difficulty = game.difficulty]_vars

\* C8: stop() clears gameRunning and leaves gameOver, score, ghosty, walls
\* and the dispatched events as they are; while the engine is not running
\* update() returns it unchanged and a frame callback changes no field
C8_Stop ==
    /\ [][op' = "stop" =>
              /\ ~game'.gameRunning
              /\ game' = [game EXCEPT !.gameRunning = FALSE]
              /\ signals' = signals
              /\ gameOverEvent' = gameOverEvent]_vars
    /\ [](~game.gameRunning => \A r \in Draws : update(game, r) = game)
    /\ [][(~game.gameRunning /\ op' = "frame") =>
              /\ game' = game
              /\ signals' = signals
              /\ pending' = pending - 1]_vars

\* C8 witness: a frame callback ran on an engine stopped in mid-run
C8_Witness ==
    /\ op = "frame" /\ ~game.gameRunning /\ ~game.gameOver
    /\ ticks > 1 /\ pending = 0 /\ signals = 0

\* C9: gameOver and gameRunning never hold together, and a run has
\* dispatched exactly one 'gameOver' event if it is terminal and none
\* otherwise
C9_OneSignal ==
    /\ ~(game.gameOver /\ game.gameRunning)
    /\ signals = (IF game.gameOver THEN 1 ELSE 0)
    /\ (signals = 0) = (gameOverEvent = NoEvent)

\* C9 witness: a frame callback's tick has just ended the game
C9_Witness ==
    op = "frame" /\ game.gameOver /\ ~game.gameRunning /\ signals = 1

\* the reason endGame() is called with, read off the resulting state
ReasonOf(g) == IF BoundaryViolation(g) THEN "boundary" ELSE "wall"

\* C10 as stated: the 'gameOver' event carries the final score and the
\* collision reason
C10_Original ==
    game.gameOver =>
        /\ gameOverEvent.score = game.score
        /\ "reason" \in DOMAIN gameOverEvent
        /\ gameOverEvent.reason = ReasonOf(game)

\* C10 amended: the 'gameOver' event of the terminal tick carries the
\* score after that tick and the engine's difficulty, and nothing else;
\* the reason goes to telemetry.collision() with the same score:
\* "boundary" iff the boundary check fired, "wall" otherwise
C10_SignalPayload ==
    [][(game'.gameOver /\ (~game.gameOver \/ op' = "start")) =>
          /\ gameOverEvent'
                 = [score |-> game'.score, difficulty |-> game'.difficulty]
          /\ game'.score = retired'
          /\ collisionLog'
                 = [obstacleType |-> ReasonOf(game'), score |-> game'.score]
          /\ ReasonOf(game') = "wall" => GapViolation(game')]_vars

\* C10 witness: the game ended on a boundary in a tick with score 1
C10_Witness ==
    /\ op = "frame" /\ game.gameOver /\ gameOverEvent.score = 1
    /\ collisionLog.obstacleType = "boundary"

\* C19 as stated: every run that has ended, by a collision or by stop(),
\* has sent a run-end event (telemetry.gameEnd) to the event sink
C19_Original ==
    (ticks > 0 /\ ~game.gameRunning) => gameEndLog

\* C20: while the engine is running the actor is strictly inside the
\* playfield and inside the gap of every wall it overlaps horizontally, so
\* a violation never survives the tick that produced it
C20_CollisionSameTick ==
    game.gameRunning =>
        /\ game.ghosty.y > 0
        /\ game.ghosty.y + game.ghosty.height < Height * 10
        /\ \A i \in 1..Len(game.walls) :
               (/\ game.ghosty.x < game.walls[i].x + game.walls[i].width
                /\ game.walls[i].x < game.ghosty.x + game.ghosty.width)
               => /\ game.ghosty.y >= game.walls[i].topHeight
                  /\ game.ghosty.y + game.ghosty.height
                         <= game.walls[i].bottomY

\* C20 witness: a tick left the engine running with the actor between the
\* two segments of a wall
C20_Witness ==
    /\ op = "frame" /\ game.gameRunning /\ ticks > 1
    /\ \E i \in 1..Len(game.walls) :
           /\ game.ghosty.x < game.walls[i].x + game.walls[i].width
           /\ game.walls[i].x < game.ghosty.x + game.ghosty.width

\* the same letter, in either case
SameLetter(c, d) ==
    c = d \/ \E k \in 1..26 : {c, d} = {LowerCase[k], UpperCase[k]}

\* u holds a denylisted word at some position, whatever the case
HoldsDenylisted(u) ==
    \E w \in inappropriateWords : \E a \in 1..Len(u) :
        /\ a + Len(w) - 1 <= Len(u)
        /\ \A i \in 1..Len(w) : SameLetter(u[a + i - 1], w[i])

\* C11: after every input event the submit button is enabled iff the
\* username has 1 to 20 characters, all from [A-Za-z0-9_-], and holds no
\* denylisted word in any case (the border is green iff so); "Player_1"
\* is accepted, and "admin", "root2", "a b", a string of 21 characters and
\* the empty string are rejected
C11_Validation ==
    op = "input" =>
        /\ ~submitDisabled <=>
               /\ Len(username) \in 1..20
               /\ \A i \in 1..Len(username) : username[i] \in UsernameChars
               /\ ~HoldsDenylisted(username)
        /\ (inputBorder = "#4CAF50") <=> ~submitDisabled
        /\ username = <<"P", "l", "a", "y", "e", "r", "_", "1">>
               => ~submitDisabled
        /\ username \in {<<"a", "d", "m", "i", "n">>,
                         <<"r", "o", "o", "t", "2">>,
                         <<"a", " ", "b">>, Repeat("a", 21), <<>>}
               => submitDisabled

\* C11 witness: "Player_1" was entered and the submit button is enabled
C11_Witness ==
    /\ op = "input"
    /\ username = <<"P", "l", "a", "y", "e", "r", "_", "1">>
    /\ ~submitDisabled
    /\ currentScreen = "gameOver"

\* the usernames the contract accepts
Acceptable(u) ==
    /\ Len(u) \in 1..20
    /\ \A i \in 1..Len(u) : u[i] \in UsernameChars
    /\ ~HoldsDenylisted(u)

\* C12: a click on submit-score validates the username that is in the
\* input at that moment: when it is not acceptable no request is issued,
\* none is added to those in flight, a message is shown and the screen
\* stays as it is; when it is acceptable the request carries that username
C12_Revalidates ==
    [][op' = "submit-score" =>
          /\ currentScreen' = currentScreen
          /\ IF Acceptable(username)
             THEN /\ request' # NoEvent
                  /\ request'.username = username
             ELSE /\ request' = NoEvent
                  /\ inFlight' = inFlight
                  /\ alert' = "invalid-username"]_vars

\* C12 witness: a successful submission cleared the input and left the
\* button enabled (another submission is still pending); the next click on
\* submit-score was turned down
C12_Witness ==
    /\ op = "submit-score"
    /\ username = <<>>
    /\ inFlight = 1
    /\ alert = "invalid-username"
    /\ request = NoEvent
    /\ currentScreen = "gameOver"

\* C13 as stated: at most one score submission is in flight at any time
C13_Original == inFlight <= 1

\* the transition table of the session: from, trigger, to ("game" is the
\* screen the table calls playing; "frame" is the tick in which the engine
\* emits its game-over event)
TransitionTable ==
    {<<"menu", "start-game", "game">>,
     <<"game", "frame", "gameOver">>,
     <<"game", "cancel", "menu">>,
     <<"gameOver", "play-again", "game">>,
     <<"gameOver", "back-to-menu", "menu">>,
     <<"menu", "show-leaderboard", "leaderboard">>,
     <<"leaderboard", "back-from-leaderboard", "menu">>}

\* C14: the screen starts as menu, is always one of menu, game, gameOver
\* and leaderboard, and every step that changes it is a transition of the
\* table, made by that transition's trigger
C14_Transitions ==
    /\ currentScreen = "menu"
    /\ [](currentScreen \in {"menu", "game", "gameOver", "leaderboard"})
    /\ [][currentScreen' # currentScreen =>
              <<currentScreen, op', currentScreen'>> \in TransitionTable]_vars

\* C14 witness: back on the menu from the leaderboard, after a game that
\* was played to its end
C14_Witness ==
    /\ op = "back-from-leaderboard"
    /\ currentScreen = "menu"
    /\ hasGame
    /\ game.gameOver
    /\ finalScore = game.score

\* an upper bound of the number of triggers needed to be back on the menu
\* from screen s with engine g: a tick adds the gravity to the velocity,
\* and the velocity of a running actor is below the playfield's height
Distance(s, g) ==
    CASE s = "menu" -> 0
      [] s \in {"gameOver", "leaderboard"} -> 1
      [] s = "game" -> IF g.gameRunning
                       THEN 2 + (Height * 10 - g.ghosty.velocity)
                       ELSE 2

\* C15: in every reachable state off the menu a trigger is enabled that
\* brings the session strictly nearer to the menu, so that a finite
\* sequence of triggers leads from every reachable state back to the menu:
\* on gameOver and on leaderboard the back button; on game a frame
\* callback is pending on a running engine, and its tick either ends the
\* run, which shows gameOver, or leaves the run nearer to its end
C15_PathToMenu ==
    /\ [](currentScreen = "gameOver"
              => ENABLED (/\ BackToMenu
                          /\ Distance(currentScreen', game')
                                 < Distance(currentScreen, game)))
    /\ [](currentScreen = "leaderboard"
              => ENABLED (/\ BackFromLeaderboard
                          /\ Distance(currentScreen', game')
                                 < Distance(currentScreen, game)))
    /\ [](currentScreen = "game"
              => /\ hasGame /\ pending > 0 /\ game.gameRunning
                 /\ Distance(currentScreen, game) >= 2
                 /\ \E r \in Draws :
                        Distance(IF update(game, r).gameRunning
                                 THEN "game" ELSE "gameOver",
                                 update(game, r))
                            < Distance(currentScreen, game))
    /\ [][(op' = "frame" /\ game.gameRunning)
              => /\ \E r \in Draws : game' = update(game, r)
                 /\ currentScreen' = IF game'.gameRunning
                                     THEN "game" ELSE "gameOver"
                 /\ Distance(currentScreen', game')
                        < Distance(currentScreen, game)]_vars

\* C15 witness: a live run after a key press, with a score submission and
\* a leaderboard fetch still pending
C15_Witness ==
    /\ currentScreen = "game"
    /\ game.gameRunning
    /\ game.ghosty.velocity < 0
    /\ inFlight > 0
    /\ fetches > 0

\* C16 as stated: while the screen is game and the engine runs, a trigger
\* of the session is enabled that shows the menu and stops the engine
C16_Original ==
    (currentScreen = "game" /\ game.gameRunning)
        => ENABLED (/\ AppNext
                    /\ currentScreen' = "menu"
                    /\ ~game'.gameRunning)

\* C17: the step in which a score submission resolves leaves the screen
\* and the engine as they are; on an ok response it empties the username
\* input, on a response that is not ok and on a rejected fetch it shows a
\* failure message and leaves the input as it is
C17_Resolution ==
    [][op' = "submit-resolve" =>
          /\ currentScreen' = currentScreen
          /\ <<game, listening, pending, signals, gameOverEvent>>'
                 = <<game, listening, pending, signals, gameOverEvent>>
          /\ IF response'.status = "ok"
             THEN username' = <<>>
             ELSE /\ username' = username
                  /\ alert' \in {"failed", "failed-with-message"}]_vars

\* C17 witness: a submission failed on a response without a JSON body
\* while the next run was already being played
C17_Witness ==
    /\ op = "submit-resolve"
    /\ response = [status |-> "not-ok", body |-> "not-json"]
    /\ alert = "failed"
    /\ username = <<"b", "o", "b">>
    /\ currentScreen = "game"
    /\ game.gameRunning

\* C18 as stated: the step in which a leaderboard fetch resolves leaves
\* the screen as it is, and when the fetch was rejected or its response is
\* not a sequence of entries, the leaderboard shows the failure message
C18_Original ==
    [][op' = "fetch-resolve" =>
          /\ currentScreen' = currentScreen
          /\ (response'.kind # "array"
                 \/ response'.items \notin {"none", "entry"})
                 => leaderboardContent' = "failed"]_vars

\* walls appended by the step: the list grew by them after losing the
\* walls the filter removed
Created == Len(game'.walls) + (retired' - retired) - Len(game.walls)

\* C21: a tick of a running engine appends a wall iff the list is empty or
\* the newest wall is at least wallSpacing left of the right edge, where it
\* was created; it appends at most one, created at the right edge (and
\* scrolled once by the same tick); the tick inside start() appends
\* exactly one, whatever wallSpacing is
C21_Generation ==
    /\ [][(op' = "frame" /\ ticks' = ticks + 1) =>
              /\ Created \in {0, 1}
              /\ Created = 1 <=>
                     \/ Len(game.walls) = 0
                     \/ Width - game.walls[Len(game.walls)].x
                            >= config(game).wallSpacing
              /\ Created = 1 =>
                     game'.walls[Len(game'.walls)].x
                         = Width - config(game).wallSpeed]_vars
    /\ [][(op' = "start" /\ ticks' = 1) =>
              /\ Len(game'.walls) = 1
              /\ retired' = 0
              /\ game'.walls[1].x = Width - config(game).wallSpeed]_vars

\* C21 witness: a tick created the second wall while the first, beyond the
\* spacing, was still in the list
C21_Witness ==
    /\ op = "frame"
    /\ Len(game.walls) = 2
    /\ game.walls[2].x = Width - config(game).wallSpeed
    /\ Width - game.walls[1].x >= config(game).wallSpacing

C23_RunDifficulty ==
    /\ [][op' \in {"start-game", "play-again"} =>
              /\ hasGame'
              /\ game'.difficulty = selectedDifficulty
              /\ selectedDifficulty' = selectedDifficulty
              /\ difficultyDisplay' = selectedDifficulty
              /\ game'.gameRunning /\ ~game'.gameOver
              /\ game'.score = 0
              /\ ticks' = 1 /\ jumps' = 0 /\ signals' = 0
              /\ currentScreen' = "game"]_vars
    /\ [][op' \notin {"start-game", "play-again"} =>
              game'.difficulty = game.difficulty]_vars
    /\ [][op' = "difficulty-btn" =>
              /\ selectedDifficulty' \in DifficultyNames
              /\ currentScreen' = currentScreen
              /\ hasGame' = hasGame
              /\ <<game, pending, ticks, listening>>'
                     = <<game, pending, ticks, listening>>]_vars

\* C23 witness: after a run of the medium profile the hard one was
\* selected on the menu and started, and its run has scored
C23_Witness ==
    /\ op = "frame"
    /\ finalScore = 0
    /\ selectedDifficulty = "hard"
    /\ game.difficulty = "hard"
    /\ game.gameRunning
    /\ game.score = 1

\* C24 as stated: whenever the screen is menu the session holds no engine
C24_Original == currentScreen = "menu" => ~hasGame

\* C25: the request a click on submit-score issues carries the score and
\* the difficulty of the one 'gameOver' event of the session's engine, the
\* event that showed the gameOver screen and set the final score
C25_SubmittedPayload ==
    [][(op' = "submit-score" /\ request' # NoEvent) =>
          /\ currentScreen = "gameOver"
          /\ signals = 1
          /\ request'.score = gameOverEvent.score
          /\ request'.difficulty = gameOverEvent.difficulty
          /\ request'.score = finalScore]_vars

\* C25 witness: the score 1 of a run of the hard profile, in which Space
\* was pressed, was submitted while an earlier submission was pending
C25_Witness ==
    /\ op = "submit-score"
    /\ request # NoEvent
    /\ request.score = 1
    /\ request.difficulty = "hard"
    /\ selectedDifficulty = "hard"
    /\ inFlight = 2
    /\ jumps = 1

\* C26: a key press on a live engine sets the velocity to the profile's
\* jumpStrength and changes nothing else; a second and any further press
\* before the next tick leave the engine exactly as the first left it, and
\* that tick integrates from jumpStrength
C26_Idempotent ==
    /\ [][(op' = "keypress" /\ updates(game)) =>
              /\ game' = [game EXCEPT
                             !.ghosty.velocity = config(game).jumpStrength]
              /\ <<pending, ticks, signals>>' = <<pending, ticks, signals>>
              /\ op = "keypress" => game' = game]_vars
    /\ [][(op = "keypress" /\ updates(game) /\ op' = "frame") =>
              /\ game'.ghosty.velocity
                     = config(game).jumpStrength + config(game).gravity
              /\ game'.ghosty.y
                     = game.ghosty.y + config(game).jumpStrength
                           + config(game).gravity]_vars

\* C26 witness: the tick after Space was pressed twice in a row
C26_Witness ==
    /\ op = "frame"
    /\ jumps = 2
    /\ game.gameRunning
    /\ game.ghosty.velocity
           = config(game).jumpStrength + config(game).gravity

\* C27: the x positions of the walls increase strictly along the list; a
\* tick keeps the walls it does not remove in their order, each scrolled
\* by wallSpeed, removes only walls at the front of the list, all of them
\* past the left edge, and puts a wall it creates at the end
C27_WallOrder ==
    /\ [](\A i \in 1..Len(game.walls) : \A j \in 1..Len(game.walls) :
              i < j => game.walls[i].x < game.walls[j].x)
    /\ [][(op' = "frame" /\ ticks' = ticks + 1) =>
              /\ retired' - retired \in 0..Len(game.walls)
              /\ \A i \in 1..(retired' - retired) :
                     game.walls[i].x - config(game).wallSpeed
                         + game.walls[i].width < 0
              /\ \A i \in (retired' - retired + 1)..Len(game.walls) :
                     game'.walls[i - (retired' - retired)]
                         = [game.walls[i] EXCEPT
                                !.x = @ - config(game).wallSpeed]
              /\ Created = 1 =>
                     /\ Len(game'.walls)
                            = Len(game.walls) - (retired' - retired) + 1
                     /\ game'.walls[Len(game'.walls)].x
                            = Width - config(game).wallSpeed]_vars

\* C27 witness: a tick removed the oldest wall from the front of a list of
\* two and kept the newer one
C27_Witness ==
    /\ op = "frame"
    /\ retired = 1
    /\ Len(game.walls) = 1
    /\ game.walls[1].x > Width - config(game).wallSpacing
    /\ game.gameRunning

\* C28: a frame callback that finds the engine running performs one
\* update() and schedules one callback in its place; a frame callback that
\* finds it not running, after a collision or after stop(), leaves the
\* engine as it is and schedules nothing; whether the engine is terminal
\* plays no part besides gameRunning
C28_Cadence ==
    /\ [][op' = "frame" =>
              IF game.gameRunning
              THEN /\ ticks' = ticks + 1
                   /\ \E r \in Draws : game' = update(game, r)
                   /\ pending' = pending
              ELSE /\ ticks' = ticks
                   /\ game' = game
                   /\ pending' = pending - 1]_vars
    /\ [](game.gameOver => ~game.gameRunning)

\* C28 witness: the frame callback scheduled by the tick that ended the
\* game has run, and no callback is pending any more
C28_Witness ==
    /\ op = "frame"
    /\ game.gameOver
    /\ ~game.gameRunning
    /\ pending = 0
    /\ ticks > 1
    /\ ~gameEndLog

\* C29 as stated: after every frame of a running engine the updateUI
\* callback is scheduled again and #score shows the engine's score
C29_Original ==
    (hasGame /\ op = "frame" /\ game.gameRunning)
        => uiLoop /\ scoreDisplay = game.score

\* C30 as stated: at most one frame callback of the engine is pending
C30_Original == pending <= 1

\* C31: a run on the game screen always comes to its end, which shows the
\* gameOver screen with the engine terminal; the number of ticks is
\* bounded: the gravity is positive, the velocity of a running actor is
\* below the playfield's height, and a run without any key press stops
\* before the free fall from mid-height, gravity * t * (t + 1) / 2 after t
\* ticks, has covered the way to the floor
C31_RunEnds ==
    /\ (currentScreen = "game" /\ game.gameRunning)
           ~> (currentScreen = "gameOver" /\ game.gameOver
                   /\ ~game.gameRunning)
    /\ [](game.gameRunning =>
              /\ config(game).gravity > 0
              /\ game.ghosty.velocity < Height * 10
              /\ jumps = 0 =>
                     config(game).gravity * ticks * (ticks + 1)
                         < 2 * (Height * 10 - Height * 5 - GhostyHeight))

\* C31 witness: Space was pressed once, nothing after it, and the run
\* ended on the floor
C31_Witness ==
    /\ op = "frame"
    /\ currentScreen = "gameOver"
    /\ game.gameOver
    /\ jumps = 1
    /\ collisionLog.obstacleType = "boundary"
    /\ game.ghosty.y + game.ghosty.height >= Height * 10

====
